---- MODULE Spec2Model ----
(***************************************************************************)
(* The GPU dataset containers of lightautoml_gpu (gpu_dataset.py): the     *)
(* dense, sparse, table and distributed backends, their role-driven dtype  *)
(* coercion, their conversion graph and the distributed row re-indexing.   *)
(*                                                                         *)
(* Python objects live in two heaps.  heap holds the dataset instances,    *)
(* addressed by position, so that "the same instance" is "the same         *)
(* address".  roleHeap holds the ColumnRole objects: a dataset's roles     *)
(* dict maps a feature name to the address of a role, so that two datasets *)
(* that were handed the same role objects see each other's writes.         *)
(* last records the call that was made last and how it ended.              *)
(*                                                                         *)
(* Numbers are kept in halves (3 stands for 1.5) so that a cast from a     *)
(* float dtype to an integer dtype is a truncation, not the identity.      *)
(***************************************************************************)
EXTENDS Integers, Sequences, FiniteSets, TLC

VARIABLES heap, roleHeap, last

vars == <<heap, roleHeap, last>>

\* ------------------------------------------------------------------ bounds

\* Most rows a table or buffer handed to a constructor or to set_data has.
MaxRows == 2

\* Most dataset instances alive in the scenarios of conversions there and
\* back.
MaxObjs == 3

\* Most dataset instances alive in the scenarios of a single conversion.
MaxConvObjs == 2

\* Most dataset instances alive in the scenarios of sequential datasets.
MaxSeqObjs == 3

\* Most dataset instances alive in the scenarios of get_first_frame.
MaxFrameObjs == 2

\* Most regularization coefficients in cs, and the largest early_stopping.
MaxCs == 4

\* The largest validation score the metric returns (scores are 0..MaxScore
\* or np.nan).
MaxScore == 2

\* ----------------------------------------------------------------- helpers

Range(f) == {f[x] : x \in DOMAIN f}

SeqOf(f, n) == [i \in 1..n |-> f[i]]

\* ------------------------------------------------------------------ dtypes

\* The dtypes the model draws from, in numpy's coercion order.
TestTypes == <<"int32", "float32", "float64", "object">>

DTypes == Range(TestTypes)

IntTypes == {"int32"}

\* cp.issubdtype(d, cp.number)
IsNumber(d) == d \in {"int32", "float32", "float64"}

\* numpy's safe-cast relation on TestTypes: int32 does not fit float32.
CanCast(a, b) ==
    \/ a = b
    \/ b = "object"
    \/ a = "int32" /\ b = "float64"
    \/ a = "float32" /\ b = "float64"

\* The widest of the listed dtypes, whether or not the others cast to it
\* safely.
FindCommonTypeWidestListed(dtypes) ==
    IF dtypes = {} THEN "none"
    ELSE LET ks == {k \in DOMAIN TestTypes : TestTypes[k] \in dtypes}
         IN  TestTypes[CHOOSE k \in ks : \A j \in ks : j <= k]

\* cp.find_common_type(dtypes, []), the scan of numpy's _can_coerce_all: an
\* empty list gives None, a single dtype gives itself, otherwise the first
\* dtype of the coercion order that every listed dtype casts to safely.
FindCommonType(dtypes) ==
    IF dtypes = {} THEN "none"
    ELSE IF Cardinality(dtypes) = 1 THEN CHOOSE d \in dtypes : TRUE
    ELSE LET ok == {k \in DOMAIN TestTypes :
                        \A d \in dtypes : CanCast(d, TestTypes[k])}
         IN  TestTypes[CHOOSE k \in ok : \A j \in ok : k <= j]

\* ndarray.astype on one value: a float or object value cast to an integer
\* dtype loses its fraction.
CastVal(v, from, to) ==
    IF to \in IntTypes /\ from \notin IntTypes THEN v - (v % 2) ELSE v

\* ------------------------------------------------------------------- roles

\* The kinds of role object a caller hands over: numeric roles of several
\* storage dtypes, a categorical role stored as integers, a categorical role
\* stored as objects, and the special roles that name an auxiliary attribute.
NumericKinds ==
    {[name |-> "Numeric", dtype |-> "int32"],
     [name |-> "Numeric", dtype |-> "float32"]}

FeatureKinds ==
    NumericKinds \cup
    {[name |-> "Category", dtype |-> "int32"],
     [name |-> "Category", dtype |-> "object"]}

\* The roles the set_data scenarios draw from.
DenseKinds ==
    NumericKinds \cup {[name |-> "Category", dtype |-> "object"]}

\* valid_array_attributes and array_attr_roles, zipped by position.
ValidArrayAttributes == <<"target", "group">>

ArrayAttrRoles == <<"Target", "Group">>

SpecialKinds ==
    {[name |-> "Target", dtype |-> "float32"],
     [name |-> "Group", dtype |-> "object"]}

DropRole == [name |-> "Drop", dtype |-> "object"]

NumericRoleFloat32 == [name |-> "Numeric", dtype |-> "float32"]

\* The three forms of the roles argument: a dict of role objects, a single
\* role object for every column, or None.
RolesDict(m) == [kind |-> "dict", map |-> m, one |-> 0]

RolesSingle(a) == [kind |-> "single", map |-> <<>>, one |-> a]

RolesNone == [kind |-> "none", map |-> <<>>, one |-> 0]

\* -------------------------------------------------------------------- data

\* Feature names a caller uses, and the names generated when none are given.
Cols == <<"a", "b">>

AutoNames == <<"feat_0", "feat_1">>

Tasks == {"reg"}

IndexOf(s, x) == CHOOSE i \in DOMAIN s : s[i] = x

\* The value of input record r in column c, in halves: the first column
\* holds whole numbers, the second holds fractions.
RawVal(r, c) == 2 * r + (c - 1)

\* The value of the auxiliary array (target, group) for input record r.
AuxVal(r) == 2 * r

\* A backing store: kind is its Python type, recs the identity of each
\* physical row (the input record it came from), index the row labels of a
\* table (empty for a buffer), cols the column labels of a table, coldt the
\* storage dtype of each column, vals the cells by row and column.
Store(kind, recs, index, cols, coldt, vals) ==
    [kind |-> kind, recs |-> recs, index |-> index, cols |-> cols,
     coldt |-> coldt, vals |-> vals]

NRows(t) == Len(t.recs)

NCols(t) == Len(t.coldt)

\* A cp.ndarray or csr_matrix of n rows and m columns of float64 holding the
\* input records base+1 .. base+n.
Buffer(kind, n, m, base) ==
    Store(kind, [i \in 1..n |-> base + i], <<>>, <<>>,
          [j \in 1..m |-> "float64"],
          [i \in 1..n |-> [j \in 1..m |-> RawVal(base + i, j)]])

\* A one-dimensional auxiliary array: recs and vals by physical position,
\* index the row labels of a Series (empty for a cp.ndarray).
Arr(recs, index, vals) == [recs |-> recs, index |-> index, vals |-> vals]

NoArr == Arr(<<>>, <<>>, <<>>)

\* cp.asarray(series): the values, without the labels.
CpAsArray(a) == Arr(a.recs, <<>>, a.vals)

\* The keyword arguments of a constructor: one array per attribute name,
\* NoArr when the name is not passed.
NoKwargs == [k \in Range(ValidArrayAttributes) |-> NoArr]

\* data.astype(dt) on a buffer: every column is cast to dt.
AsType(t, dt) ==
    [t EXCEPT !.coldt = [j \in DOMAIN t.coldt |-> dt],
              !.vals = [i \in DOMAIN t.vals |->
                          [j \in DOMAIN t.vals[i] |->
                              CastVal(t.vals[i][j], t.coldt[j], dt)]]]

\* ---------------------------------------------------------------- datasets

\* How an instance came to be, kept for the statements about conversions:
\* the call that built it and, for a conversion, the source as the caller read
\* it just before the call.
Origin(op, before) == [op |-> op, before |-> before]

NoOrigin == Origin("init", <<>>)

\* LAMLDataset._initialize: the task, the names of the auxiliary attributes
\* and the attributes themselves; no data, features or roles yet.
Initialize(cls, task, kwargs) ==
    [cls |-> cls,
     origin |-> NoOrigin,
     data |-> Store("none", <<>>, <<>>, <<>>, <<>>, <<>>),
     features |-> <<>>,
     roles |-> <<>>,
     dtype |-> "none",
     task |-> task,
     arrs |-> SelectSeq(ValidArrayAttributes, LAMBDA k : kwargs[k] # NoArr),
     attr |-> kwargs]

\* The features setter of the dense datasets: a list is copied, None
\* generates feat_0, feat_1, ...
DenseFeatures(data, features) ==
    IF features = <<>> THEN SeqOf(AutoNames, NCols(data)) ELSE features

\* The roles setter: a dict is read at every feature, a single role is shared
\* by every feature, None makes one new NumericRole(float32) shared by every
\* feature.  Gives the roles dict and the role heap.
SetRoles(features, rolesArg, rh) ==
    LET fs == Range(features)
    IN  CASE rolesArg.kind = "dict" ->
               [roles |-> [f \in fs |-> rolesArg.map[f]], rh |-> rh]
          [] rolesArg.kind = "single" ->
               [roles |-> [f \in fs |-> rolesArg.one], rh |-> rh]
          [] OTHER ->
               [roles |-> [f \in fs |-> Len(rh) + 1],
                rh |-> Append(rh, NumericRoleFloat32)]

\* LAMLDataset.set_data: data, then features, then roles, each through its
\* setter.
LAMLSetData(d, data, features, rolesArg, rh) ==
    LET r == SetRoles(features, rolesArg, rh)
    IN  [ds |-> [d EXCEPT !.data = data, !.features = features,
                          !.roles = r.roles],
         rh |-> r.rh]

\* CupyDataset._check_dtype: the common dtype of the roles is stored in the
\* dataset and written into every role object, then asserted to be numeric,
\* then the buffer is cast.  A failed assertion leaves the writes made
\* before it.
CupyCheckDtype(d, rh) ==
    LET dt == FindCommonType({rh[d.roles[f]].dtype : f \in DOMAIN d.roles})
        rh2 == [a \in DOMAIN rh |->
                   IF a \in Range(d.roles) THEN [rh[a] EXCEPT !.dtype = dt]
                   ELSE rh[a]]
        d2 == [d EXCEPT !.dtype = dt]
    IN  IF ~IsNumber(dt)
        THEN [ok |-> FALSE, ds |-> d2, rh |-> rh2]
        ELSE [ok |-> TRUE,
              ds |-> IF d2.data.coldt # [j \in DOMAIN d2.data.coldt |-> dt]
                     THEN [d2 EXCEPT !.data = AsType(d2.data, dt)]
                     ELSE d2,
              rh |-> rh2]

DenseClasses == {"CupyDataset", "CupySparseDataset"}

\* The type the backing store of a dense class must have.
StoreKindOf(cls) ==
    CASE cls = "CupyDataset" -> "ndarray"
      [] cls = "CupySparseDataset" -> "csr"
      [] cls = "CudfDataset" -> "DataFrame"
      [] OTHER -> "dask"

\* CupyDataset.set_data and CupySparseDataset.set_data: the assertion on the
\* type of the store, LAMLDataset.set_data, _check_dtype.
DenseSetData(d, data, features, rolesArg, rh) ==
    IF data.kind # StoreKindOf(d.cls)
    THEN [status |-> "AssertionError", ds |-> d, rh |-> rh]
    ELSE LET s == LAMLSetData(d, data, DenseFeatures(data, features),
                              rolesArg, rh)
             c == CupyCheckDtype(s.ds, s.rh)
         IN  [status |-> IF c.ok THEN "ok" ELSE "AssertionError",
              ds |-> c.ds, rh |-> c.rh]

\* CupyDataset.__init__ and CupySparseDataset.__init__: _initialize, the
\* attributes (as cp arrays in CupyDataset), then set_data.
DenseInit(cls, data, features, rolesArg, task, kwargs, rh) ==
    LET kw == IF cls = "CupyDataset"
              THEN [k \in DOMAIN kwargs |->
                       IF kwargs[k] = NoArr THEN NoArr ELSE CpAsArray(kwargs[k])]
              ELSE kwargs
    IN  DenseSetData(Initialize(cls, task, kw), data, features, rolesArg, rh)

\* ------------------------------------------------------------------ tables

\* A cell that holds text no number can be parsed from.
Text == -1

\* Whether the cast of column j of table t to dtype "to" raises: a column of
\* strings casts to a number only when every cell parses.
CastFails(t, j, to) ==
    /\ t.coldt[j] = "object"
    /\ IsNumber(to)
    /\ \E i \in DOMAIN t.vals : t.vals[i][j] = Text

\* data.astype(dtypes), dtypes a dict from column name to dtype, inside
\* try/except: one call casts all the listed columns, and when it raises the
\* table stays as it was.
TableAsType(t, dtypes) ==
    LET listed == {j \in DOMAIN t.cols : t.cols[j] \in DOMAIN dtypes}
        to(j) == dtypes[t.cols[j]]
    IN  IF \E j \in listed : CastFails(t, j, to(j))
        THEN t
        ELSE [t EXCEPT !.coldt = [j \in DOMAIN t.coldt |->
                                     IF j \in listed THEN to(j) ELSE t.coldt[j]],
                       !.vals = [i \in DOMAIN t.vals |->
                                   [j \in DOMAIN t.vals[i] |->
                                       IF j \in listed
                                       THEN CastVal(t.vals[i][j], t.coldt[j], to(j))
                                       ELSE t.vals[i][j]]]]

\* The columns that _convert_datetime passes to cudf.to_datetime: those of
\* the listed ones for which 'data.dtypes[i] is np.datetime64' is false.
\* data.dtypes[i] is a dtype object and np.datetime64 is the scalar class:
\* no dtype, datetime64[ns] included, is that object.
ParsedColumns(t, dateCols) ==
    {f \in dateCols : t.coldt[IndexOf(t.cols, f)] # "class numpy.datetime64"}

\* CudfDataset._convert_datetime: every listed column that passes the test
\* is parsed to datetime.
ConvertDatetime(t, dateCols) ==
    [t EXCEPT !.coldt = [j \in DOMAIN t.coldt |->
                            IF t.cols[j] \in ParsedColumns(t, dateCols)
                            THEN "datetime64"
                            ELSE t.coldt[j]]]

\* CudfDataset._check_dtype and DaskCudfDataset._check_dtype: the columns
\* whose role is not Datetime are cast to their role's dtype in one astype
\* call whose failure is swallowed; the Datetime columns are parsed.
TableCheckDtype(d, rh) ==
    LET dateCols == {f \in DOMAIN d.roles : rh[d.roles[f]].name = "Datetime"}
        dtypes == [f \in DOMAIN d.roles \ dateCols |-> rh[d.roles[f]].dtype]
    IN  [d EXCEPT !.data = ConvertDatetime(TableAsType(d.data, dtypes), dateCols)]

\* CudfDataset.set_data: LAMLDataset.set_data with the features read off the
\* table's columns, then _check_dtype.
TableSetData(d, data, rolesArg, rh) ==
    LET s == LAMLSetData(d, data, data.cols, rolesArg, rh)
    IN  [status |-> "ok", ds |-> TableCheckDtype(s.ds, s.rh), rh |-> s.rh]

\* dask's data.astype(dtypes): nothing is computed, the column dtypes the
\* collection announces become the listed ones.  The cells that parse are
\* shown cast; a column whose cast cannot succeed keeps its cells and fails
\* whenever it is computed.
TableAsTypeLazy(t, dtypes) ==
    LET listed == {j \in DOMAIN t.cols : t.cols[j] \in DOMAIN dtypes}
        to(j) == dtypes[t.cols[j]]
    IN  [t EXCEPT !.coldt = [j \in DOMAIN t.coldt |->
                                 IF j \in listed THEN to(j) ELSE t.coldt[j]],
                  !.vals = [i \in DOMAIN t.vals |->
                               [j \in DOMAIN t.vals[i] |->
                                   IF j \in listed /\ ~CastFails(t, j, to(j))
                                   THEN CastVal(t.vals[i][j], t.coldt[j], to(j))
                                   ELSE t.vals[i][j]]]]

\* _check_dtype of the two table classes on a store of either table type.
\* CudfDataset: astype inside try/except, which a DataFrame computes at once
\* and a dask collection only records.  DaskCudfDataset: astype(...).persist()
\* inside try/except, then map_partitions(...).persist() outside it; persist
\* computes at once under the local scheduler and returns futures under a
\* distributed client (deferred), where a failing cast raises nothing here;
\* a DataFrame has neither persist nor map_partitions.
TableCheckDtypeOn(d, rh, deferred) ==
    LET dateCols == {f \in DOMAIN d.roles : rh[d.roles[f]].name = "Datetime"}
        dtypes == [f \in DOMAIN d.roles \ dateCols |-> rh[d.roles[f]].dtype]
        lazy == \/ d.cls = "CudfDataset" /\ d.data.kind = "dask"
                \/ d.cls = "DaskCudfDataset" /\ deferred
    IN  IF d.cls = "DaskCudfDataset" /\ d.data.kind = "DataFrame"
        THEN [status |-> "AttributeError", ds |-> d]
        ELSE [status |-> "ok",
              ds |-> [d EXCEPT !.data =
                        ConvertDatetime(IF lazy THEN TableAsTypeLazy(d.data, dtypes)
                                        ELSE TableAsType(d.data, dtypes),
                                        dateCols)]]

\* CudfDataset.set_data, which DaskCudfDataset inherits, on a store of either
\* table type: no check of the store's type, LAMLDataset.set_data, then the
\* class's _check_dtype.
TableSetDataOn(d, data, rolesArg, rh, deferred) ==
    LET s == LAMLSetData(d, data, data.cols, rolesArg, rh)
        c == TableCheckDtypeOn(s.ds, s.rh, deferred)
    IN  [status |-> c.status, ds |-> c.ds, rh |-> s.rh]

\* data[f]: column f of a table as a Series with the table's row labels.
ColumnOf(t, f) ==
    Arr(t.recs, t.index, [i \in DOMAIN t.vals |-> t.vals[i][IndexOf(t.cols, f)]])

\* series.reset_index(drop=True): the labels become 0 .. n-1.
ResetIndex(a) == Arr(a.recs, [i \in DOMAIN a.recs |-> i - 1], a.vals)

\* The extraction loop without the replacement of the role: the column
\* becomes the keyword argument and keeps the role it was given.
RECURSIVE ExtractAttrsKeepRole(_, _, _, _, _, _)
ExtractAttrsKeepRole(names, data, roles, kw, rh, reset) ==
    IF names = <<>> THEN [roles |-> roles, kw |-> kw, rh |-> rh]
    ELSE LET f == Head(names)
             hits == {p \in DOMAIN ArrayAttrRoles :
                         ArrayAttrRoles[p] = rh[roles[f]].name}
         IN  IF hits = {}
             THEN ExtractAttrsKeepRole(Tail(names), data, roles, kw, rh, reset)
             ELSE LET k == ValidArrayAttributes[CHOOSE p \in hits : TRUE]
                      col == ColumnOf(data, f)
                  IN  ExtractAttrsKeepRole(
                          Tail(names), data, roles,
                          [kw EXCEPT ![k] = IF reset THEN ResetIndex(col) ELSE col],
                          rh, reset)

\* The loop at the head of the table constructors, over the column names in
\* the order of the roles dict: a column whose role is named like the j-th
\* array_attr_roles entry becomes the j-th valid_array_attributes keyword
\* argument (its labels reset when reset is TRUE), and its entry in the
\* roles dict becomes a new DropRole().
RECURSIVE ExtractAttrs(_, _, _, _, _, _)
ExtractAttrs(names, data, roles, kw, rh, reset) ==
    IF names = <<>> THEN [roles |-> roles, kw |-> kw, rh |-> rh]
    ELSE LET f == Head(names)
             hits == {p \in DOMAIN ArrayAttrRoles :
                         ArrayAttrRoles[p] = rh[roles[f]].name}
         IN  IF hits = {}
             THEN ExtractAttrs(Tail(names), data, roles, kw, rh, reset)
             ELSE LET k == ValidArrayAttributes[CHOOSE p \in hits : TRUE]
                      col == ColumnOf(data, f)
                  IN  ExtractAttrs(
                          Tail(names), data,
                          [roles EXCEPT ![f] = Len(rh) + 1],
                          [kw EXCEPT ![k] = IF reset THEN ResetIndex(col) ELSE col],
                          Append(rh, DropRole), reset)

\* CudfDataset.__init__: the extraction loop (labels reset), _initialize,
\* set_data.  roles is the caller's dict, from column name to role object.
CudfInit(data, roles, task, kwargs, rh) ==
    LET e == ExtractAttrs(data.cols, data, roles, kwargs, rh, TRUE)
    IN  TableSetData(Initialize("CudfDataset", task, e.kw), data,
                     RolesDict(e.roles), e.rh)

\* --------------------------------------------- distributed tables: re-index

\* dict(zip(index values, arange(size))): every label maps to the position
\* (from 0) of the last row that carries it.
Mapping(index) ==
    [l \in Range(index) |->
        (CHOOSE i \in DOMAIN index :
            /\ index[i] = l
            /\ \A j \in DOMAIN index : index[j] = l => j <= i) - 1]

\* A label the mapping does not know maps to a missing value.
Null == -1

\* series.map(mapping) on a sequence of labels.
MapLabels(labels, mapping) ==
    [i \in DOMAIN labels |->
        IF labels[i] \in DOMAIN mapping THEN mapping[labels[i]] ELSE Null]

IsAscending(s) == \A i \in 1..(Len(s) - 1) : s[i] <= s[i + 1]

\* set_index("index", sorted=True): the labels are taken on trust, no row
\* moves.  Labels that are not ascending go unnoticed inside one partition
\* and raise ValueError when they break the order between two partitions;
\* strict tells which of the two the partitioning at hand produces.
SetSortedIndexOk(labels, strict) == IsAscending(labels) \/ ~strict

\* DaskCudfDataset.__init__: the extraction loop (labels kept); unless
\* index_ok, the mapping from the table's labels, the table re-keyed through
\* it, every keyword array re-keyed through it; _initialize; set_data.
DaskInit(data, roles, task, indexOk, kwargs, rh, strict) ==
    LET e == ExtractAttrs(data.cols, data, roles, kwargs, rh, FALSE)
        mapping == Mapping(data.index)
        newIndex == MapLabels(data.index, mapping)
        newKw == [k \in DOMAIN e.kw |->
                    IF e.kw[k] = NoArr THEN NoArr
                    ELSE [e.kw[k] EXCEPT !.index = MapLabels(@, mapping)]]
        allOk == /\ SetSortedIndexOk(newIndex, strict)
                 /\ \A k \in DOMAIN newKw :
                        SetSortedIndexOk(newKw[k].index, strict)
    IN  IF indexOk
        THEN TableSetData(Initialize("DaskCudfDataset", task, e.kw), data,
                          RolesDict(e.roles), e.rh)
        ELSE IF ~allOk
        THEN [status |-> "ValueError",
              ds |-> Initialize("DaskCudfDataset", task, e.kw), rh |-> e.rh]
        ELSE TableSetData(Initialize("DaskCudfDataset", task, newKw),
                          [data EXCEPT !.index = newIndex],
                          RolesDict(e.roles), e.rh)

\* ------------------------------------------------------------- conversions

\* What a conversion can end in: status "ok" with the instance it returns
\* (same tells that it is the instance it was called on) or the error it
\* raised, and the role heap as the call left it.
Outcome(status, ds, rh, same) ==
    [status |-> status, ds |-> ds, rh |-> rh, same |-> same]

Same(d, rh) == Outcome("ok", d, rh, TRUE)

Built(r) == Outcome(r.status, r.ds, r.rh, FALSE)

Raised(e, d, rh) == Outcome(e, d, rh, FALSE)

\* The errors a cudf call can raise on an argument it does not take; which
\* one is the library's choice.
LibraryErrors == {"TypeError", "ValueError", "NotImplementedError"}

\* The labels of a new cudf Series or DataFrame: 0 .. n-1.
DefaultIndex(n) == [i \in 1..n |-> i - 1]

\* The keyword arguments a conversion passes on, one per attribute the
\* dataset lists: the attribute itself, a new cudf.Series of it, or its
\* values.
ParamsKeep(d) == d.attr

ParamsSeries(d) ==
    [k \in DOMAIN d.attr |->
        IF d.attr[k] = NoArr THEN NoArr ELSE ResetIndex(d.attr[k])]

ParamsValues(d) ==
    [k \in DOMAIN d.attr |->
        IF d.attr[k] = NoArr THEN NoArr ELSE CpAsArray(d.attr[k])]

\* CupyDataset.to_cudf, inherited by CupySparseDataset: one cudf.Series per
\* column of the buffer (a slice of a csr_matrix is not something cudf.Series
\* takes), the attributes as cudf.Series, then CudfDataset(...).
CupyToCudf(d, rh) ==
    IF d.data.kind # "ndarray"
    THEN {Raised(e, d, rh) : e \in LibraryErrors}
    ELSE LET data == Store("DataFrame", d.data.recs,
                           DefaultIndex(NRows(d.data)), d.features,
                           d.data.coldt, d.data.vals)
         IN  {Built(CudfInit(data, d.roles, d.task, ParamsSeries(d), rh))}

\* CudfDataset.to_cupy: the attributes' values, the table's values as one
\* array of the columns' common dtype (a column of strings or datetimes has
\* no such array), then CupyDataset(...).  No role is looked at before the
\* dense constructor runs.
CudfToCupy(d, rh) ==
    IF \E j \in DOMAIN d.data.coldt : ~IsNumber(d.data.coldt[j])
    THEN {Raised(e, d, rh) : e \in LibraryErrors}
    ELSE LET values == AsType(Store("ndarray", d.data.recs, <<>>, <<>>,
                                    d.data.coldt, d.data.vals),
                              FindCommonType(Range(d.data.coldt)))
         IN  {Built(DenseInit("CupyDataset", values, d.features,
                              RolesDict(d.roles), d.task,
                              ParamsValues(d), rh))}

\* x.to_cupy() on every CudfDataset x a first conversion returned.
ThenCudfToCupy(os) ==
    UNION {IF o.status = "ok" THEN CudfToCupy(o.ds, o.rh) ELSE {o} : o \in os}

\* CupyDataset.to_sparse_gpu, inherited by CupySparseDataset: the assertion
\* that every role is named Numeric, csr_matrix(data), then
\* CupySparseDataset(...).
CupyToSparseGpu(d, rh) ==
    IF \E f \in DOMAIN d.roles : rh[d.roles[f]].name # "Numeric"
    THEN {Raised("AssertionError", d, rh)}
    ELSE {Built(DenseInit("CupySparseDataset", [d.data EXCEPT !.kind = "csr"],
                          d.features, RolesDict(d.roles), d.task,
                          ParamsKeep(d), rh))}

\* x.to_sparse_gpu() on every CupyDataset x a first conversion returned.
ThenCupyToSparseGpu(os) ==
    UNION {IF o.status = "ok" THEN CupyToSparseGpu(o.ds, o.rh) ELSE {o} :
              o \in os}

\* CupySparseDataset.to_cupy: data.toarray(), then CupyDataset(...).
SparseToCupy(d, rh) ==
    {Built(DenseInit("CupyDataset", [d.data EXCEPT !.kind = "ndarray"],
                     d.features, RolesDict(d.roles), d.task,
                     ParamsKeep(d), rh))}

\* dask_cudf.from_cudf(x, npartitions): a frame whose labels are not
\* ascending is sorted by label first; rows with equal labels come out in
\* either order.
FromCudfOrders(index) ==
    IF IsAscending(index)
    THEN {[i \in DOMAIN index |-> i]}
    ELSE {p \in Permutations(DOMAIN index) :
             IsAscending([i \in DOMAIN index |-> index[p[i]]])}

ReorderArr(a, p) ==
    Arr([i \in DOMAIN p |-> a.recs[p[i]]], [i \in DOMAIN p |-> a.index[p[i]]],
        [i \in DOMAIN p |-> a.vals[p[i]]])

ReorderTable(t, p) ==
    [t EXCEPT !.recs = [i \in DOMAIN p |-> t.recs[p[i]]],
              !.index = [i \in DOMAIN p |-> t.index[p[i]]],
              !.vals = [i \in DOMAIN p |-> t.vals[p[i]]]]

FromCudfArrs(a) ==
    IF a = NoArr THEN {NoArr}
    ELSE {ReorderArr(a, p) : p \in FromCudfOrders(a.index)}

\* CudfDataset.to_daskcudf(nparts, index_ok): from_cudf on the table and on
\* every attribute, each by its own labels, then DaskCudfDataset(...).
CudfToDaskcudf(d, rh, indexOk, strict) ==
    LET tables == {ReorderTable([d.data EXCEPT !.kind = "dask"], p) :
                      p \in FromCudfOrders(d.data.index)}
        params == {kw \in [DOMAIN d.attr ->
                              UNION {FromCudfArrs(d.attr[k]) : k \in DOMAIN d.attr}] :
                      \A k \in DOMAIN d.attr : kw[k] \in FromCudfArrs(d.attr[k])}
    IN  {Built(DaskInit(t, d.roles, d.task, indexOk, kw, rh, strict)) :
            t \in tables, kw \in params}

\* x.to_daskcudf(nparts, index_ok) on every CudfDataset x a first conversion
\* returned.
ThenCudfToDaskcudf(os, indexOk, strict) ==
    UNION {IF o.status = "ok"
           THEN CudfToDaskcudf(o.ds, o.rh, indexOk, strict)
           ELSE {o} : o \in os}

\* DaskCudfDataset.to_cudf: compute() on the table and on every attribute,
\* then CudfDataset(...).
DaskToCudf(d, rh) ==
    {Built(CudfInit([d.data EXCEPT !.kind = "DataFrame"], d.roles, d.task,
                    ParamsKeep(d), rh))}

\* to_cupy of the four classes: CupyDataset returns itself,
\* DaskCudfDataset goes through to_cudf().
ToCupy(d, rh) ==
    CASE d.cls = "CupyDataset" -> {Same(d, rh)}
      [] d.cls = "CupySparseDataset" -> SparseToCupy(d, rh)
      [] d.cls = "CudfDataset" -> CudfToCupy(d, rh)
      [] OTHER -> ThenCudfToCupy(DaskToCudf(d, rh))

\* to_cudf of the four classes: CudfDataset returns itself.
ToCudf(d, rh) ==
    CASE d.cls \in DenseClasses -> CupyToCudf(d, rh)
      [] d.cls = "CudfDataset" -> {Same(d, rh)}
      [] OTHER -> DaskToCudf(d, rh)

\* to_sparse_gpu of the four classes: the table classes go through
\* to_cupy(); no class returns itself.
ToSparseGpu(d, rh) ==
    IF d.cls \in DenseClasses THEN CupyToSparseGpu(d, rh)
    ELSE ThenCupyToSparseGpu(ToCupy(d, rh))

\* to_daskcudf of the four classes: DaskCudfDataset returns itself, the
\* dense classes go through to_cudf().
ToDaskcudf(d, rh, indexOk, strict) ==
    CASE d.cls = "DaskCudfDataset" -> {Same(d, rh)}
      [] d.cls = "CudfDataset" -> CudfToDaskcudf(d, rh, indexOk, strict)
      [] OTHER -> ThenCudfToDaskcudf(CupyToCudf(d, rh), indexOk, strict)

\* CupySparseDataset.to_pandas.
SparseToPandas(d, rh) == {Raised("NotImplementedError", d, rh)}

\* The conversion that makes an instance of class cls.
ConversionTo(cls, d, rh, indexOk, strict) ==
    CASE cls = "CupyDataset" -> ToCupy(d, rh)
      [] cls = "CupySparseDataset" -> ToSparseGpu(d, rh)
      [] cls = "CudfDataset" -> ToCudf(d, rh)
      [] OTHER -> ToDaskcudf(d, rh, indexOk, strict)

\* cls.from_dataset(d): the class's own conversion of d; in
\* CupySparseDataset it comes after the test type(d) in DenseSparseArray,
\* a membership test on a typing.Union, which raises TypeError.
FromDataset(cls, d, rh, indexOk, strict) ==
    IF cls = "CupySparseDataset"
    THEN {Raised("TypeError", d, rh)}
    ELSE ConversionTo(cls, d, rh, indexOk, strict)

\* ----------------------------------------------------- sequential datasets

SeqClasses == {"SeqCudfDataset", "SeqDaskCudfDataset"}

\* An entry of idx that is np.nan: the logical row has no record there.
NaN == -2

\* The idx array of a sequential dataset, np.array(...) of the groups as a
\* caller builds it: groups holds, per logical row, the offsets (from 0) of
\* its physical rows; dtype is the dtype numpy gives the array: groups of
\* unequal length make an array of objects, np.nan among equally long groups
\* makes an array of floats, offsets alone make an array of integers.
IdxOf(groups) ==
    [groups |-> groups,
     dtype |-> IF \E g, h \in Range(groups) : Len(g) # Len(h) THEN "object"
               ELSE IF \E g \in Range(groups) : NaN \in Range(g) THEN "float"
               ELSE "int"]

\* sorted(list(set(s)))
SortedSet(S) ==
    CHOOSE s \in [1..Cardinality(S) -> S] :
        \A i \in 1..(Cardinality(S) - 1) : s[i] < s[i + 1]

\* rows.extend(list(i)) for every group i: the members of the groups, one
\* after the other.
RECURSIVE Flatten(_)
Flatten(groups) ==
    IF groups = <<>> THEN <<>> ELSE Head(groups) \o Flatten(Tail(groups))

\* The running counter _c when group j is reached: the lengths of the groups
\* before it.
RECURSIVE CountBefore(_, _)
CountBefore(groups, j) ==
    IF j = 1 THEN 0 ELSE CountBefore(groups, j - 1) + Len(groups[j - 1])

\* idx_new: group j becomes np.arange(len(i)) + _c.
Renumber(groups) ==
    [j \in DOMAIN groups |->
        [p \in 1..Len(groups[j]) |-> CountBefore(groups, j) + p - 1]]

\* The position (from 1) that iloc reads for offset p in n rows; a negative
\* offset counts from the end.
Pos(n, p) == IF p < 0 THEN n + p + 1 ELSE p + 1

\* The positions data.loc[labels] of dask reads: for every label asked for,
\* the rows that carry it; a label no row carries gives no row.  When the rows
\* sit in several partitions (split) they come back partition by partition,
\* in ascending order of label, otherwise in the order asked.
RECURSIVE LocPositions(_, _)
LocPositions(index, labels) ==
    IF labels = <<>> THEN <<>>
    ELSE SortedSet({i \in DOMAIN index : index[i] = Head(labels)})
             \o LocPositions(index, Tail(labels))

\* The rows of a table or of a Series that _get_rows / _get_slice select:
\* iloc by offset in the cudf classes, loc by label in the dask classes.
RowPositions(kind, index, rows, split) ==
    LET p == CHOOSE q \in Permutations(DOMAIN rows) :
                 IsAscending([i \in DOMAIN rows |-> rows[q[i]]])
        sorted == [i \in DOMAIN rows |-> rows[p[i]]]
    IN  IF kind = "dask"
        THEN LocPositions(index, IF split THEN sorted ELSE rows)
        ELSE [i \in DOMAIN rows |-> Pos(Len(index), rows[i])]

\* Whether the selection finds every row it asks for.
RowsFound(kind, index, rows) ==
    IF kind = "dask" THEN Range(rows) \subseteq Range(index)
    ELSE \A i \in DOMAIN rows : Pos(Len(index), rows[i]) \in 1..Len(index)

\* data[data.columns[cols]] / iloc[:, cols]: the columns named, in the order
\* named.
SelectCols(t, cols) ==
    LET at == [k \in DOMAIN cols |-> IndexOf(t.cols, cols[k])]
    IN  [t EXCEPT !.cols = cols,
                  !.coldt = [k \in DOMAIN cols |-> t.coldt[at[k]]],
                  !.vals = [i \in DOMAIN t.vals |->
                               [k \in DOMAIN cols |-> t.vals[i][at[k]]]]]

\* rows = [rows] if int, np.arange(len(self)) if slice, else rows.  A
\* selector sel of logical rows is an int, a list of ints, or a slice object
\* with its start, stop and step (Null for None).
LogicalRows(d, sel) ==
    IF sel.kind = "slice" THEN DefaultIndex(Len(d.idx.groups)) ELSE sel.rows

\* The result of a call on a sequential dataset: how it ended, the dataset
\* it was called on as the call left it, the dataset it returned, the role
\* heap, and whether it warned.
SeqOutcome(status, src, ds, rh, warned) ==
    [status |-> status, src |-> src, ds |-> ds, rh |-> rh, warned |-> warned]

\* SeqCudfDataset.__init__ (_initialize, set_data: the table's set_data, idx,
\* _check_dtype) and SeqDaskCudfDataset.__init__ (the constructor of
\* DaskCudfDataset with index_ok left False, then set_idx).  An idx that is
\* None (dtype "None") becomes np.arange(len(data)).reshape(-1, 1), one
\* group per row; any other idx is stored as it is.
SeqInit(cls, data, roles, idx, task, kwargs, rh, split) ==
    LET r == IF cls = "SeqCudfDataset"
             THEN TableSetData(Initialize(cls, task, kwargs), data,
                               RolesDict(roles), rh)
             ELSE DaskInit(data, roles, task, FALSE, kwargs, rh, split)
        set == IF idx.dtype = "None"
               THEN IdxOf([i \in 1..NRows(data) |-> <<i - 1>>])
               ELSE idx
    IN  IF r.status # "ok" THEN [r EXCEPT !.ds = r.ds @@ [idx |-> idx]]
        ELSE [r EXCEPT !.ds = [TableCheckDtype(r.ds, r.rh) EXCEPT !.cls = cls]
                                  @@ [idx |-> set]]

\* SeqCudfDataset.__getitem__ and SeqDaskCudfDataset.__getitem__ with a row
\* selector and the columns asked for (<<>> for none): the groups selected,
\* their members flattened, idx_new numbered by the running counter, the
\* physical rows as the sorted set of the members; a slice object takes idx
\* as it is and every physical row, anything else warns; the table and every
\* attribute are cut to the physical rows; a copy of the dataset is
\* initialized with the cut attributes and given the cut table, the roles
\* and idx_new.  An idx of floats is an index cudf may or may not take.
SeqGetItem(d, rh, sel, cols, strict) ==
    LET isSlice == sel.kind = "slice"
        tempIdx == [j \in DOMAIN LogicalRows(d, sel) |->
                       d.idx.groups[LogicalRows(d, sel)[j] + 1]]
        idxNew == IF isSlice THEN d.idx
                  ELSE [groups |-> Renumber(tempIdx), dtype |-> "object"]
        rows == IF isSlice THEN DefaultIndex(NRows(d.data))
                ELSE SortedSet(Range(Flatten(tempIdx)))
        kind == d.data.kind
        found == /\ RowsFound(kind, d.data.index, rows)
                 /\ \A k \in Range(d.arrs) :
                        RowsFound(kind, d.attr[k].index, rows)
        cut == ReorderTable(d.data,
                            RowPositions(kind, d.data.index, rows, FALSE))
        data == IF cols = <<>> THEN cut ELSE SelectCols(cut, cols)
        roles == IF cols = <<>> THEN d.roles
                 ELSE [f \in DOMAIN d.roles \cap Range(cols) |-> d.roles[f]]
        params == [k \in DOMAIN d.attr |->
                      IF d.attr[k] = NoArr THEN NoArr
                      ELSE ReorderArr(d.attr[k],
                                      RowPositions(kind, d.attr[k].index, rows,
                                                   FALSE))]
        s == TableSetData(Initialize(d.cls, d.task, params), data,
                          RolesDict(roles), rh)
        done == SeqOutcome("ok", d,
                           TableCheckDtype(s.ds, s.rh) @@ [idx |-> idxNew],
                           s.rh, ~isSlice)
        fail(e) == SeqOutcome(e, d, d, rh, ~isSlice)
    IN  IF ~isSlice /\ NaN \in Range(Flatten(tempIdx))
        THEN {fail(e) : e \in LibraryErrors}
        ELSE IF ~found
        THEN IF kind = "dask" /\ ~strict
             THEN {done}
             ELSE {fail(IF kind = "dask" THEN "KeyError" ELSE "IndexError")}
        ELSE IF ~isSlice /\ d.idx.dtype = "float"
        THEN {done, fail("TypeError")}
        ELSE {done}

\* deepcopy(roles): a new role object for every role object of the dict.
CopyRoles(roles, rh) ==
    LET used == Range(roles)
        new(a) == Len(rh) + Cardinality({u \in used : u <= a})
    IN  [roles |-> [f \in DOMAIN roles |-> new(roles[f])],
         rh |-> rh \o [k \in 1..Cardinality(used) |-> rh[SortedSet(used)[k]]]]

\* The table with the padding row of get_first_frame: one more row, the
\* record 0, with no value in any column.  cudf.concat labels it 0, the dask
\* variant labels it len(data).
Padded(t) ==
    [t EXCEPT !.recs = Append(@, 0),
              !.index = Append(@, IF t.kind = "dask" THEN NRows(t) ELSE 0),
              !.vals = Append(@, [j \in DOMAIN t.coldt |-> Null])]

\* np.nan_to_num(idx, nan=[-1])
NanToNum(idx) ==
    [idx EXCEPT !.groups =
        [j \in DOMAIN @ |->
            [p \in DOMAIN @[j] |-> IF @[j][p] = NaN THEN -1 ELSE @[j][p]]]]

\* SeqCudfDataset.get_first_frame and SeqDaskCudfDataset.get_first_frame:
\* _check_dtype, the logical rows, np.isnan(idx) (a TypeError on an array of
\* objects); with np.nan in idx the padding row is appended and idx is
\* replaced by its nan_to_num; the first member of every selected group is
\* looked up (iloc in the cudf class, where an index of floats may or may not
\* be taken; loc in the dask class, where a label no row carries is dropped
\* or a KeyError) and a plain table dataset is built from the rows and a deep
\* copy of the roles.
SeqGetFirstFrame(d, rh, sel, cols, strict, split) ==
    LET checked == TableCheckDtype(d, rh)
        hasNan == NaN \in Range(Flatten(d.idx.groups))
        src == IF hasNan THEN [checked EXCEPT !.idx = NanToNum(d.idx)]
               ELSE checked
        table == IF hasNan THEN Padded(checked.data) ELSE checked.data
        first == [j \in DOMAIN LogicalRows(d, sel) |->
                     src.idx.groups[LogicalRows(d, sel)[j] + 1][1]]
        kind == d.data.kind
        cut == ReorderTable(table,
                            RowPositions(kind, table.index, first, split))
        data == IF cols = <<>> THEN cut ELSE SelectCols(cut, cols)
        c == CopyRoles(IF cols = <<>> THEN d.roles
                       ELSE [f \in DOMAIN d.roles \cap Range(cols) |->
                                d.roles[f]],
                       rh)
        r == IF kind = "dask"
             THEN DaskInit(data, c.roles, d.task, FALSE, NoKwargs, c.rh, split)
             ELSE CudfInit(data, c.roles, d.task, NoKwargs, c.rh)
        done == SeqOutcome(r.status, src, r.ds, r.rh, FALSE)
        fail(e) == SeqOutcome(e, src, src, rh, FALSE)
    IN  IF d.idx.dtype = "object"
        THEN {SeqOutcome("TypeError", checked, checked, rh, FALSE)}
        ELSE IF ~RowsFound(kind, table.index, first)
        THEN IF kind = "dask" /\ ~strict
             THEN {done}
             ELSE {fail(IF kind = "dask" THEN "KeyError" ELSE "IndexError")}
        ELSE IF kind # "dask" /\ d.idx.dtype = "float"
        THEN {done, fail("TypeError")}
        ELSE {done}

\* Checks that compare the row counts only.
ConcatChecksRowCountOnly(ds) ==
    \A k \in DOMAIN ds : NRows(ds[k].data) = NRows(ds[1].data)

\* The checks registered in _concat_checks: every dataset has the idx and
\* the row count of the first.
ConcatChecks(ds) ==
    \A k \in DOMAIN ds :
        /\ ds[k].idx.groups = ds[1].idx.groups
        /\ NRows(ds[k].data) = NRows(ds[1].data)

\* cudf.concat(tables, axis=1) and dask_cudf.concat(tables, axis=1): the rows
\* are matched by label, not by position; a label that only some tables
\* carry gives a row with no value in the columns of the others.  The labels
\* come in the order in which they first appear, or in ascending order
\* (ascending), as the library decides.
HStackTables(tables, ascending) ==
    LET labelSeq == Flatten([k \in DOMAIN tables |-> tables[k].index])
        labels == Range(labelSeq)
        firstAt(l) == CHOOSE i \in DOMAIN labelSeq :
                          /\ labelSeq[i] = l
                          /\ \A j \in DOMAIN labelSeq : labelSeq[j] = l => i <= j
        byFirst == CHOOSE s \in [1..Cardinality(labels) -> labels] :
                       \A i \in 1..(Cardinality(labels) - 1) :
                           firstAt(s[i]) < firstAt(s[i + 1])
        index == IF ascending THEN SortedSet(labels) ELSE byFirst
        owner(l) == CHOOSE k \in DOMAIN tables : l \in Range(tables[k].index)
        cell(k, l, j) == IF l \in Range(tables[k].index)
                         THEN tables[k].vals[IndexOf(tables[k].index, l)][j]
                         ELSE Null
    IN  Store(tables[1].kind,
              [i \in DOMAIN index |->
                  tables[owner(index[i])].recs[
                      IndexOf(tables[owner(index[i])].index, index[i])]],
              index,
              Flatten([k \in DOMAIN tables |-> tables[k].cols]),
              Flatten([k \in DOMAIN tables |-> tables[k].coldt]),
              [i \in DOMAIN index |->
                  Flatten([k \in DOMAIN tables |->
                              [j \in DOMAIN tables[k].cols |->
                                  cell(k, index[i], j)]])])

\* SeqCudfDataset.concat and SeqDaskCudfDataset.concat on datasets with
\* distinct column names: the checks, idx of the first dataset, the empty
\* copy of the first dataset, every attribute taken from the first dataset
\* that has it, the tables stacked, set_data with the merged roles and idx.
SeqConcat(ds, rh, ascending) ==
    IF ~ConcatChecks(ds)
    THEN {SeqOutcome("AssertionError", ds[1], ds[1], rh, FALSE)}
    ELSE LET data == HStackTables([k \in DOMAIN ds |-> ds[k].data], ascending)
             roles == [f \in UNION {DOMAIN ds[k].roles : k \in DOMAIN ds} |->
                          ds[CHOOSE k \in DOMAIN ds : f \in DOMAIN ds[k].roles]
                              .roles[f]]
             has(k) == {i \in DOMAIN ds : ds[i].attr[k] # NoArr}
             attr == [k \in DOMAIN ds[1].attr |->
                         IF has(k) = {} THEN NoArr
                         ELSE ds[CHOOSE i \in has(k) :
                                     \A j \in has(k) : i <= j].attr[k]]
             s == TableSetData(Initialize(ds[1].cls, ds[1].task, attr),
                               data, RolesDict(roles), rh)
         IN  {SeqOutcome("ok", ds[1],
                         TableCheckDtype(s.ds, s.rh) @@ [idx |-> ds[1].idx],
                         s.rh, FALSE)}

\* ------------------------------------------------------------ the two heaps

\* Role objects no dataset refers to are collected; the addresses of the
\* rest are renumbered in order.
Compact(h, rh) ==
    LET used == UNION {Range(h[i].roles) : i \in DOMAIN h}
        new(a) == Cardinality({u \in used : u <= a})
        old(k) == CHOOSE a \in used : new(a) = k
    IN  [heap |-> [i \in DOMAIN h |->
                     [h[i] EXCEPT !.roles =
                        [f \in DOMAIN h[i].roles |-> new(h[i].roles[f])]]],
         rh |-> [k \in 1..Cardinality(used) |-> rh[old(k)]]]

\* A dataset as a caller reads it: every role by its content.
View(d, rh) == [d EXCEPT !.roles = [f \in DOMAIN d.roles |-> rh[d.roles[f]]]]

\* What the caller gave to the call made last, kept for the statements about
\* it: the dtypes of the roles, the row labels of the table, the columns
\* whose role names an auxiliary attribute (as <<column, attribute>>), and
\* the index_ok flag.
Given(dtypes, index, special, indexOk) ==
    [dtypes |-> dtypes, index |-> index, special |-> special,
     indexOk |-> indexOk]

NoGiven == Given({}, <<>>, {}, TRUE)

\* The call made last: op its name, src the instance it was called on (0 for
\* a constructor), arg the class or store type it was given, res the instance
\* it returned (0 when it raised), status how it ended.
Call(op, src, arg, given, res, status) ==
    [op |-> op, src |-> src, arg |-> arg, given |-> given, res |-> res,
     status |-> status]

NoCall == Call("none", 0, "none", NoGiven, 0, "ok")

\* What a call leaves behind: the heaps mutated as far as the call got, the
\* new instance when one was returned.
Commit(h, rh, call) ==
    LET c == Compact(h, rh)
    IN  /\ heap' = c.heap
        /\ roleHeap' = c.rh
        /\ last' = call

\* A constructor that returned: the new instance is appended to the heap.
Returned(op, src, arg, given, r) ==
    IF r.status = "ok"
    THEN Commit(Append(heap, r.ds), r.rh,
                Call(op, src, arg, given, Len(heap) + 1, "ok"))
    ELSE Commit(heap, r.rh, Call(op, src, arg, given, 0, r.status))

\* ------------------------------------------------------------ caller inputs

\* The roles a caller passes for m columns: a dict of new role objects, one
\* new role object for all columns, or None.
RoleInputs(kinds, m) ==
    {[form |-> "dict", rs |-> rs] : rs \in [1..m -> kinds]}
        \cup {[form |-> "single", rs |-> <<k>>] : k \in kinds}
        \cup {[form |-> "none", rs |-> <<>>]}

\* The role heap once the caller has made the role objects of ri.
WithRoles(rh, ri) == rh \o ri.rs

\* The roles argument for ri, its role objects being the last ones made.
RolesArgOf(rh, ri, names) ==
    CASE ri.form = "dict" ->
           RolesDict([f \in Range(names) |-> Len(rh) + IndexOf(names, f)])
      [] ri.form = "single" -> RolesSingle(Len(rh) + 1)
      [] OTHER -> RolesNone

\* The features argument that goes with ri: the column names with a dict or a
\* single role, None (names are generated) with no roles.
FeaturesArgOf(ri, names) == IF ri.form = "none" THEN <<>> ELSE names

\* The dtypes of the roles the dataset is given by ri.
InputDtypes(ri) ==
    IF ri.form = "none" THEN {NumericRoleFloat32.dtype}
    ELSE {ri.rs[j].dtype : j \in DOMAIN ri.rs}

\* An auxiliary array over the records recs, labelled by index.
AuxArr(recs, index) == Arr(recs, index, [i \in DOMAIN recs |-> AuxVal(recs[i])])

\* The keyword arguments of a dense constructor over n rows: nothing, or a
\* target array.
DenseKwargs(n) ==
    {NoKwargs,
     [NoKwargs EXCEPT !["target"] = AuxArr([i \in 1..n |-> i], <<>>)]}

\* A table of kind "DataFrame" or "dask" with n rows, m columns of float64
\* and the given row labels, holding the input records 1 .. n.
Table(kind, n, m, index) ==
    Store(kind, [i \in 1..n |-> i], index, SeqOf(Cols, m),
          [j \in 1..m |-> "float64"],
          [i \in 1..n |-> [j \in 1..m |-> RawVal(i, j)]])

\* The keyword arguments of a table constructor: nothing, or a target Series
\* over the table's records in any physical order, each value labelled like
\* the table row of its record.
TableKwargs(n, index) ==
    {NoKwargs} \cup
    {[NoKwargs EXCEPT !["target"] =
         AuxArr([i \in 1..n |-> p[i]], [i \in 1..n |-> index[p[i]]])] :
       p \in Permutations(1..n)}

\* The columns of rs whose role names an auxiliary attribute.
SpecialOf(rs) ==
    {<<Cols[jp[1]], ValidArrayAttributes[jp[2]]>> :
        jp \in {x \in (DOMAIN rs) \X (DOMAIN ArrayAttrRoles) :
                   ArrayAttrRoles[x[2]] = rs[x[1]].name}}

\* The row labels the table scenarios draw from: not contiguous, in any
\* order, repeated or not.
Labels == {0, 1, 5}

TableKinds == FeatureKinds \cup SpecialKinds

\* ------------------------------------------------------------------ actions

Init ==
    /\ heap = <<>>
    /\ roleHeap = <<>>
    /\ last = NoCall

\* CupyDataset(data, features, roles, task, **kwargs) and
\* CupySparseDataset(...), given a store of the class's own type, as the first
\* call of a caller.
NewDense(kinds) ==
    /\ heap = <<>>
    /\ last = NoCall
    /\ \E cls \in DenseClasses, n \in 1..MaxRows, m \in 1..Len(Cols),
          task \in Tasks :
        \E kw \in DenseKwargs(n), ri \in RoleInputs(kinds, m) :
            LET names == SeqOf(Cols, m)
                r == DenseInit(cls, Buffer(StoreKindOf(cls), n, m, 0),
                               FeaturesArgOf(ri, names),
                               RolesArgOf(roleHeap, ri, names), task, kw,
                               WithRoles(roleHeap, ri))
            IN  Returned("init", 0, cls,
                         Given(InputDtypes(ri), <<>>, {}, TRUE), r)

\* d.set_data(data, features, roles) on a dense dataset d, with a store of
\* either dense type that holds records the dataset has not seen.  The
\* instance keeps whatever the call wrote before it raised.
SetDataDense ==
    \E i \in DOMAIN heap :
        /\ heap[i].cls \in DenseClasses
        /\ \E kind \in {"ndarray", "csr"}, n \in 1..MaxRows,
              m \in 1..Len(Cols) :
            \E ri \in RoleInputs(DenseKinds, m) :
                LET names == SeqOf(Cols, m)
                    r == DenseSetData(heap[i], Buffer(kind, n, m, MaxRows),
                                      FeaturesArgOf(ri, names),
                                      RolesArgOf(roleHeap, ri, names),
                                      WithRoles(roleHeap, ri))
                IN  Commit([heap EXCEPT ![i] = r.ds], r.rh,
                           Call("set_data", i, kind,
                                Given(InputDtypes(ri), <<>>, {}, TRUE),
                                IF r.status = "ok" THEN i ELSE 0, r.status))

\* CudfDataset(data, roles, task, **kwargs) as the first call of a
\* caller, roles being a dict of new role objects, one per column.
NewCudf(kinds, labels) ==
    /\ heap = <<>>
    /\ last = NoCall
    /\ \E n \in 1..MaxRows, m \in 1..Len(Cols), task \in Tasks :
        \E rs \in [1..m -> kinds], index \in [1..n -> labels] :
            \E kw \in TableKwargs(n, index) :
                LET names == SeqOf(Cols, m)
                    ri == [form |-> "dict", rs |-> rs]
                    r == CudfInit(Table("DataFrame", n, m, index),
                                  RolesArgOf(roleHeap, ri, names).map, task,
                                  kw, WithRoles(roleHeap, ri))
                IN  Returned("init", 0, "CudfDataset",
                             Given(InputDtypes(ri), index, SpecialOf(rs), TRUE),
                             r)

\* DaskCudfDataset(data, roles, task, index_ok, **kwargs) as the
\* first call of a caller.
NewDask(kinds, labels) ==
    /\ heap = <<>>
    /\ last = NoCall
    /\ \E n \in 1..MaxRows, m \in 1..Len(Cols), task \in Tasks,
          indexOk \in BOOLEAN, strict \in BOOLEAN :
        \E rs \in [1..m -> kinds], index \in [1..n -> labels] :
            \E kw \in TableKwargs(n, index) :
                LET names == SeqOf(Cols, m)
                    ri == [form |-> "dict", rs |-> rs]
                    r == DaskInit(Table("dask", n, m, index),
                                  RolesArgOf(roleHeap, ri, names).map, task,
                                  indexOk, kw, WithRoles(roleHeap, ri), strict)
                IN  Returned("init", 0, "DaskCudfDataset",
                             Given(InputDtypes(ri), index, SpecialOf(rs),
                                   indexOk),
                             r)

\* What a conversion called on instance i leaves behind: nothing new when
\* it returned the instance itself, a new instance (with its origin) when it
\* built one, the role heap as it was left when it raised.  cap is the most
\* instances the scenario keeps.
Finish(op, i, arg, given, o, cap) ==
    IF o.status # "ok"
    THEN Commit(heap, o.rh, Call(op, i, arg, given, 0, o.status))
    ELSE IF o.same
    THEN Commit(heap, o.rh, Call(op, i, arg, given, i, "ok"))
    ELSE /\ Len(heap) < cap
         /\ Commit(Append(heap,
                          [o.ds EXCEPT !.origin =
                              Origin(op, View(heap[i], roleHeap))]),
                   o.rh, Call(op, i, arg, given, Len(heap) + 1, "ok"))

\* The caller goes on to its next call only when the last one returned: an
\* exception ends the script.
Running == last.status = "ok"

\* A table of the given type with n rows, m columns and default row labels,
\* holding records the dataset has not seen: the columns of text are strings
\* (dtype object) whose first row holds text that is no number, the others
\* are float64.
TextTable(kind, n, m, text) ==
    Store(kind, [i \in 1..n |-> MaxRows + i], [i \in 1..n |-> i - 1],
          SeqOf(Cols, m),
          [j \in 1..m |-> IF j \in text THEN "object" ELSE "float64"],
          [i \in 1..n |->
              [j \in 1..m |-> IF j \in text /\ i = 1 THEN Text
                              ELSE RawVal(MaxRows + i, j)]])

\* d.set_data(data, None, roles) on a table dataset d as the call that
\* follows its construction, with a table of either table type and a dict of
\* new role objects.  The instance keeps whatever the call wrote before it
\* raised.
SetDataTable ==
    /\ Running
    /\ last.op = "init"
    /\ \E i \in DOMAIN heap :
        /\ heap[i].cls \in {"CudfDataset", "DaskCudfDataset"}
        /\ \E kind \in {"DataFrame", "dask"}, n \in 1..MaxRows,
              m \in 1..Len(Cols), deferred \in BOOLEAN :
            \E rs \in [1..m -> FeatureKinds], text \in SUBSET (1..m) :
                LET names == SeqOf(Cols, m)
                    ri == [form |-> "dict", rs |-> rs]
                    r == TableSetDataOn(heap[i], TextTable(kind, n, m, text),
                                        RolesArgOf(roleHeap, ri, names),
                                        WithRoles(roleHeap, ri), deferred)
                IN  Commit([heap EXCEPT ![i] = r.ds], r.rh,
                           Call("set_data", i, kind,
                                Given(InputDtypes(ri), <<>>, {}, TRUE),
                                IF r.status = "ok" THEN i ELSE 0, r.status))

\* d.to_cupy()
CallToCupy(cap) ==
    /\ Running
    /\ \E i \in DOMAIN heap :
        \E o \in ToCupy(heap[i], roleHeap) :
            Finish("to_cupy", i, "CupyDataset", NoGiven, o, cap)

\* d.to_cudf()
CallToCudf(cap) ==
    /\ Running
    /\ \E i \in DOMAIN heap :
        \E o \in ToCudf(heap[i], roleHeap) :
            Finish("to_cudf", i, "CudfDataset", NoGiven, o, cap)

\* d.to_sparse_gpu()
CallToSparseGpu(cap) ==
    /\ Running
    /\ \E i \in DOMAIN heap :
        \E o \in ToSparseGpu(heap[i], roleHeap) :
            Finish("to_sparse_gpu", i, "CupySparseDataset", NoGiven, o, cap)

\* d.to_daskcudf(nparts, index_ok)
CallToDaskcudf(cap) ==
    /\ Running
    /\ \E i \in DOMAIN heap, indexOk \in BOOLEAN, strict \in BOOLEAN :
        \E o \in ToDaskcudf(heap[i], roleHeap, indexOk, strict) :
            Finish("to_daskcudf", i, "DaskCudfDataset",
                   Given({}, <<>>, {}, indexOk), o, cap)

\* d.to_pandas() on a sparse dataset
CallToPandas(cap) ==
    /\ Running
    /\ \E i \in DOMAIN heap :
        /\ heap[i].cls = "CupySparseDataset"
        /\ \E o \in SparseToPandas(heap[i], roleHeap) :
               Finish("to_pandas", i, "PandasDataset", NoGiven, o, cap)

Classes == {"CupyDataset", "CupySparseDataset", "CudfDataset", "DaskCudfDataset"}

\* cls.from_dataset(d), with npartitions and index_ok where cls takes them
CallFromDataset(cap) ==
    /\ Running
    /\ \E cls \in Classes, i \in DOMAIN heap, indexOk \in BOOLEAN,
          strict \in BOOLEAN :
        /\ cls # "DaskCudfDataset" => indexOk /\ ~strict
        /\ \E o \in FromDataset(cls, heap[i], roleHeap, indexOk, strict) :
               Finish("from_dataset", i, cls, Given({}, <<>>, {}, indexOk), o,
                      cap)

\* ------------------------------------------- actions: sequential datasets

\* The idx arrays a caller passes for a table of n rows: one to MaxRows
\* groups, each one to len offsets into the table or, with nan, as many
\* np.nan.
IdxInputs(n, len, nan) ==
    LET members == UNION {[1..k -> 0..(n - 1)]
                             \cup (IF nan THEN {[i \in 1..k |-> NaN]} ELSE {}) :
                             k \in 1..len}
    IN  UNION {[1..g -> members] : g \in 1..MaxRows}

\* The row selectors of the given kinds a caller passes to a dataset of n
\* logical rows: an int, a list of one to MaxRows logical rows in any order,
\* repeated or not, or a slice object (all rows; the first row; every second
\* row from the second).
Selectors(n, kinds) ==
    {x \in {[kind |-> "int", rows |-> <<k>>] : k \in 0..(n - 1)}
            \cup {[kind |-> "list", rows |-> s] :
                     s \in UNION {[1..k -> 0..(n - 1)] : k \in 1..MaxRows}}
            \cup {[kind |-> "slice", rows |-> s] :
                     s \in {<<Null, Null, Null>>, <<0, 1, Null>>, <<1, Null, 2>>}} :
        x.kind \in kinds}

\* The columns a caller asks for: none or, with named, one column by name.
ColumnInputs(d, named) ==
    IF named THEN {<<f>> : f \in Range(d.data.cols)} ELSE {<<>>}

\* What a call on the sequential dataset i, given the selector sel and the
\* columns cols, leaves behind: the dataset as the call left it and, when the
\* call returned, the new dataset with its origin; the call record keeps
\* what was passed and whether the call warned.
SeqFinish(op, i, sel, cols, o, cap) ==
    LET h == [heap EXCEPT ![i] = o.src]
        given == [sel |-> sel, cols |-> cols, warned |-> o.warned]
    IN  IF o.status # "ok"
        THEN Commit(h, o.rh, Call(op, i, heap[i].cls, given, 0, o.status))
        ELSE /\ Len(heap) < cap
             /\ Commit(Append(h, [o.ds EXCEPT !.origin =
                                     Origin(op, View(heap[i], roleHeap))]),
                       o.rh,
                       Call(op, i, heap[i].cls, given, Len(heap) + 1, "ok"))

\* SeqCudfDataset(data, features, roles, idx, task, **kwargs) and
\* SeqDaskCudfDataset(...) as the first call of a caller: a table with
\* default row labels, a dict of new NumericRole(float32) objects, an idx
\* array, and no attribute or a target with one value per physical row.
\* ms are the numbers of columns drawn, len and nan the idx arrays drawn.
NewSeq(ms, len, nan) ==
    /\ heap = <<>>
    /\ last = NoCall
    /\ \E cls \in SeqClasses, n \in 1..MaxRows, m \in ms, task \in Tasks :
        \E groups \in IdxInputs(n, len, nan),
           kw \in {NoKwargs,
                   [NoKwargs EXCEPT !["target"] =
                       AuxArr([i \in 1..n |-> i], DefaultIndex(n))]} :
            LET names == SeqOf(Cols, m)
                ri == [form |-> "dict", rs |-> [j \in 1..m |-> NumericRoleFloat32]]
                r == SeqInit(cls,
                             Table(IF cls = "SeqCudfDataset" THEN "DataFrame"
                                   ELSE "dask", n, m, DefaultIndex(n)),
                             RolesArgOf(roleHeap, ri, names).map, IdxOf(groups),
                             task, kw, WithRoles(roleHeap, ri), FALSE)
            IN  Returned("init", 0, cls, NoGiven, r)

\* SeqCudfDataset(data, roles=roles, task=task, **kwargs) and
\* SeqDaskCudfDataset(...) as the first call of a caller who has no idx: the
\* idx argument is left out, and the signature's default, the empty tuple (),
\* is passed on (dtype "tuple"), or it is given as None; the call record
\* keeps which.
NewSeqNoIdx ==
    /\ heap = <<>>
    /\ last = NoCall
    /\ \E cls \in SeqClasses, n \in 1..MaxRows, m \in 1..Len(Cols), task \in Tasks :
        \E dtype \in {"tuple", "None"},
           kw \in {NoKwargs,
                   [NoKwargs EXCEPT !["target"] =
                       AuxArr([i \in 1..n |-> i], DefaultIndex(n))]} :
            LET names == SeqOf(Cols, m)
                ri == [form |-> "dict", rs |-> [j \in 1..m |-> NumericRoleFloat32]]
                r == SeqInit(cls,
                             Table(IF cls = "SeqCudfDataset" THEN "DataFrame"
                                   ELSE "dask", n, m, DefaultIndex(n)),
                             RolesArgOf(roleHeap, ri, names).map,
                             [groups |-> <<>>, dtype |-> dtype],
                             task, kw, WithRoles(roleHeap, ri), FALSE)
            IN  Returned("init", 0, cls, [idx |-> dtype], r)

\* SeqCudfDataset(...) and SeqDaskCudfDataset(...) as the first call of a
\* caller whose table has dates: a dict of new role objects, each a
\* DatetimeRole or a NumericRole(float32), and one group per row or fewer.
NewSeqDated ==
    /\ heap = <<>>
    /\ last = NoCall
    /\ \E cls \in SeqClasses, n \in 1..MaxRows, m \in 1..Len(Cols), task \in Tasks :
        \E groups \in IdxInputs(n, 1, FALSE),
           rs \in [1..m -> {[name |-> "Datetime", dtype |-> "datetime64"],
                            NumericRoleFloat32}] :
            LET names == SeqOf(Cols, m)
                ri == [form |-> "dict", rs |-> rs]
                r == SeqInit(cls,
                             Table(IF cls = "SeqCudfDataset" THEN "DataFrame"
                                   ELSE "dask", n, m, DefaultIndex(n)),
                             RolesArgOf(roleHeap, ri, names).map, IdxOf(groups),
                             task, NoKwargs, WithRoles(roleHeap, ri), FALSE)
            IN  Returned("init", 0, cls, NoGiven, r)

\* d[rows] and d[rows, cols] on a sequential dataset
CallGetItem(cap, kinds, named) ==
    /\ Running
    /\ \E i \in DOMAIN heap :
        /\ heap[i].cls \in SeqClasses
        /\ \E sel \in Selectors(Len(heap[i].idx.groups), kinds),
              cols \in ColumnInputs(heap[i], named), strict \in BOOLEAN :
            \E o \in SeqGetItem(heap[i], roleHeap, sel, cols, strict) :
                SeqFinish("getitem", i, sel, cols, o, cap)

\* d.get_first_frame(), d.get_first_frame(rows), d.get_first_frame((rows,
\* cols)) on a sequential dataset
CallGetFirstFrame(cap) ==
    /\ Running
    /\ \E i \in DOMAIN heap :
        /\ heap[i].cls \in SeqClasses
        /\ \E sel \in Selectors(Len(heap[i].idx.groups),
                                {"int", "list", "slice"}),
              named \in BOOLEAN, strict \in BOOLEAN, split \in BOOLEAN :
          \E cols \in ColumnInputs(heap[i], named) :
            \E o \in SeqGetFirstFrame(heap[i], roleHeap, sel, cols, strict,
                                      split) :
                SeqFinish("get_first_frame", i, sel, cols, o, cap)

\* cls.concat([d1, d2]) on two sequential datasets of the class with no
\* column name in common
CallConcat(cap) ==
    /\ Running
    /\ \E i \in DOMAIN heap, j \in DOMAIN heap, ascending \in BOOLEAN :
        /\ i # j
        /\ heap[i].cls \in SeqClasses
        /\ heap[j].cls = heap[i].cls
        /\ Range(heap[i].data.cols) \cap Range(heap[j].data.cols) = {}
        /\ \E o \in SeqConcat(<<heap[i], heap[j]>>, roleHeap, ascending) :
               SeqFinish("concat", i, [kind |-> "datasets", rows |-> <<i, j>>],
                         <<>>, o, cap)

\* Row selections from a sequential dataset and from the results.
NextSeq ==
    \/ NewSeq({1}, MaxRows, FALSE)
    \/ CallGetItem(MaxSeqObjs, {"int", "list", "slice"}, FALSE)

SpecSeq == Init /\ [][NextSeq]_vars

\* The first frames of a sequential dataset.
NextFrame ==
    \/ NewSeq(1..Len(Cols), MaxRows, TRUE)
    \/ CallGetFirstFrame(MaxFrameObjs)

SpecFrame == Init /\ [][NextFrame]_vars

\* Two selections of rows and a column from a sequential dataset whose
\* groups are single rows, then their concatenation.
NextConcat ==
    \/ NewSeq({Len(Cols)}, 1, FALSE)
    \/ CallGetItem(MaxSeqObjs, {"list"}, TRUE)
    \/ CallConcat(MaxSeqObjs + 1)

SpecConcat == Init /\ [][NextConcat]_vars

\* A sequential dataset constructed without idx, and selections from it.
NextSeqNoIdx ==
    \/ NewSeqNoIdx
    \/ CallGetItem(MaxFrameObjs, {"int", "list", "slice"}, FALSE)

SpecSeqNoIdx == Init /\ [][NextSeqNoIdx]_vars

\* A sequential dataset with dates, and its first frames.
NextDated ==
    \/ NewSeqDated
    \/ CallGetFirstFrame(MaxFrameObjs)

SpecDated == Init /\ [][NextDated]_vars

\* ----------------------------------------------------- validation iterators

\* create_validation_iterator(train, valid, n_folds, cv_iter) in a process
\* where torch.cuda.is_available() was cuda when the module was imported:
\* the names CupyDataset, CudfDataset, DaskCudfDataset and get_gpu_iterator
\* are bound only when it was, and evaluating the list of the second test
\* without them raises NameError.  type(train) is compared with the listed
\* classes themselves, so an instance of a subclass matches neither list.
\* The result names the iterator's maker, "none" when the call raised.
CreateValidationIterator(cuda, train, valid) ==
    IF train \in {"PandasDataset", "NumpyDataset", "CSRSparseDataset"}
    THEN [status |-> "ok", iterator |-> "get_numpy_iterator"]
    ELSE IF ~cuda
    THEN [status |-> "NameError", iterator |-> "none"]
    ELSE IF train \in {"CupyDataset", "CudfDataset", "DaskCudfDataset"}
    THEN [status |-> "ok", iterator |-> "get_gpu_iterator"]
    ELSE IF valid # "None"
    THEN [status |-> "ok", iterator |-> "HoldoutIterator"]
    ELSE [status |-> "ok", iterator |-> "DummyIterator"]

\* One call of create_validation_iterator: a train dataset of one of the
\* dataset classes (the classes of the GPU stores exist only with cuda;
\* "LAMLDataset" stands for any other dataset class), no valid dataset or
\* one of the class of train, n_folds None or a number, cv_iter None or a
\* callable.  The call record keeps the class of train, what else was
\* passed, and the maker of the iterator returned.
CallCreateValidationIterator ==
    /\ heap = <<>>
    /\ last = NoCall
    /\ \E cuda \in BOOLEAN,
          train \in {"PandasDataset", "NumpyDataset", "CSRSparseDataset",
                     "LAMLDataset"} \cup Classes \cup SeqClasses,
          hasValid \in BOOLEAN, nFolds \in {Null} \cup (1..MaxRows),
          cvIter \in {"None", "callable"} :
        /\ train \in Classes \cup SeqClasses => cuda
        /\ LET valid == IF hasValid THEN train ELSE "None"
               r == CreateValidationIterator(cuda, train, valid)
           IN  last' = Call("create_validation_iterator", 0, train,
                            [cuda |-> cuda, valid |-> valid, n_folds |-> nFolds,
                             cv_iter |-> cvIter],
                            r.iterator, r.status)
    /\ UNCHANGED <<heap, roleHeap>>

NextValidation == CallCreateValidationIterator

SpecValidation == Init /\ [][NextValidation]_vars

\* ---------------------------------------------------- the linear estimator

\* best_score = -np.inf: less than every score.
NegInf == -1

\* a > b on floats: False whenever one of them is np.nan.
Greater(a, b) == a # NaN /\ b # NaN /\ a > b

\* The counter of rounds that did not improve, after a round that did.
NextEsKeepsCounting(es, improved) == es + 1

\* The counter of rounds without improvement after one more round:
\* es = 0 when the score was greater than best_score, es += 1 otherwise.
NextEs(es, improved) == IF improved THEN 0 ELSE es + 1

\* _optimize(data, data_cat, y, weights, c): L-BFGS from the parameters that
\* the object self.model holds, in place.  The parameters of a model object
\* are known by the coefficients it was optimized with, in order; tried
\* keeps every coefficient passed.
Optimize(est, c) ==
    [est EXCEPT !.models[est.model].params = Append(@, c),
                !.tried = Append(@, c)]

\* TorchBasedLinearEstimator(cs=..., early_stopping=...) with a model
\* defined, then fit(data, y, weights, data_val, y_val, weights_val) up to
\* the loop: without validation data one optimization with C = 1 and the
\* return; with it best_score = -np.inf, best_model = None (0), es = 0.
\* models are the model objects alive, model and best_model the addresses
\* of the ones that self.model and best_model refer to; k counts the rounds
\* made and evaluated keeps, per round, the parameters scored and the score.
CallFit ==
    /\ heap = <<>>
    /\ last = NoCall
    /\ \E n \in 1..MaxCs, early \in 1..MaxCs, validation \in BOOLEAN :
        LET est == [cls |-> "TorchBasedLinearEstimator",
                    cs |-> [i \in 1..n |-> i],
                    early_stopping |-> early,
                    models |-> <<[params |-> <<>>]>>,
                    model |-> 1,
                    best_score |-> NegInf,
                    best_model |-> 0,
                    es |-> 0,
                    k |-> 0,
                    tried |-> <<>>,
                    evaluated |-> <<>>]
        IN  /\ heap' = <<IF validation THEN est ELSE Optimize(est, 1)>>
            /\ last' = Call("fit", 1, est.cls, [validation |-> validation], 1,
                            IF validation THEN "running" ELSE "ok")
    /\ UNCHANGED roleHeap

\* One round of the loop over cs in fit: _optimize with the next coefficient
\* (self.model.train() raises AttributeError when self.model is None), the
\* score of the metric on the validation data, the update of best_score,
\* best_model (a deepcopy of self.model: a new object) and es, the break
\* when es has reached early_stopping, otherwise self.model = best_model;
\* fit returns after the break or after the last coefficient.
FitRound ==
    /\ last.op = "fit"
    /\ last.status = "running"
    /\ LET est == heap[1]
       IN  IF est.model = 0
           THEN /\ last' = [last EXCEPT !.status = "AttributeError", !.res = 0]
                /\ heap' = heap
           ELSE \E score \in (0..MaxScore) \cup {NaN} :
               LET o == Optimize(est, est.cs[est.k + 1])
                   improved == Greater(score, o.best_score)
                   scored == [o EXCEPT !.evaluated =
                                 Append(@, [params |-> o.models[o.model].params,
                                            score |-> score]),
                                       !.k = @ + 1,
                                       !.es = NextEs(@, improved)]
                   kept == IF improved
                           THEN [scored EXCEPT
                                    !.best_score = score,
                                    !.models = Append(@, o.models[o.model]),
                                    !.best_model = Len(o.models) + 1]
                           ELSE scored
                   stop == kept.es >= kept.early_stopping
               IN  /\ heap' = <<IF stop THEN kept
                                ELSE [kept EXCEPT !.model = kept.best_model]>>
                   /\ last' = [last EXCEPT !.status =
                                  IF stop \/ kept.k = Len(kept.cs) THEN "ok"
                                  ELSE "running"]
    /\ UNCHANGED roleHeap

NextFit == CallFit \/ FitRound

\* The interpreter runs fit to its end: a round that can be made is made.
SpecFit == Init /\ [][NextFit]_vars /\ WF_vars(NextFit)

\* One conversion of a dataset of any class and any roles.
NextConv ==
    \/ NewDense(FeatureKinds)
    \/ NewCudf(FeatureKinds, Labels)
    \/ NewDask(FeatureKinds, Labels)
    \/ CallToCupy(MaxConvObjs)
    \/ CallToCudf(MaxConvObjs)
    \/ CallToSparseGpu(MaxConvObjs)
    \/ CallToDaskcudf(MaxConvObjs)
    \/ CallToPandas(MaxConvObjs)
    \/ CallFromDataset(MaxConvObjs)

SpecConv == Init /\ [][NextConv]_vars

\* Conversions there and back of datasets whose roles are all numeric.
NextRound ==
    \/ NewDense(NumericKinds)
    \/ NewCudf(NumericKinds, Labels)
    \/ NewDask(NumericKinds, Labels)
    \/ CallToCupy(MaxObjs)
    \/ CallToCudf(MaxObjs)
    \/ CallToDaskcudf(MaxObjs)

SpecRound == Init /\ [][NextRound]_vars

NextTable ==
    \/ NewCudf(TableKinds, Labels)
    \/ NewDask(TableKinds, Labels)

SpecTable == Init /\ [][NextTable]_vars

NextDense ==
    \/ NewDense(DenseKinds)
    \/ SetDataDense

SpecDense == Init /\ [][NextDense]_vars

\* set_data on a populated dataset of each of the four classes.
NextSetData ==
    \/ NewDense(DenseKinds)
    \/ NewCudf(NumericKinds, Labels)
    \/ NewDask(NumericKinds, Labels)
    \/ SetDataDense
    \/ SetDataTable

SpecSetData == Init /\ [][NextSetData]_vars

\* ------------------------------------------------ statements: dense set_data

\* d is the least dtype, in the safe-cast order, that every dtype of ds casts
\* to.
IsCommonSupertype(d, ds) ==
    /\ \A x \in ds : CanCast(x, d)
    /\ \A u \in DTypes : (\A x \in ds : CanCast(x, u)) => CanCast(d, u)

\* C9: after every successful set_data on a dense dataset (in a constructor
\* or on a populated dataset), the dataset's dtype is numeric and is the
\* common supertype of the dtypes of the roles it was given, every role of the
\* dataset has the dataset's dtype, and every column of the buffer is stored
\* in the dataset's dtype.
C9_SetDataUnifiesDtype ==
    (last.op \in {"init", "set_data"} /\ last.status = "ok") =>
        LET d == heap[last.res]
        IN  /\ d.cls \in DenseClasses
            /\ IsNumber(d.dtype)
            /\ IsCommonSupertype(d.dtype, last.given.dtypes)
            /\ \A f \in DOMAIN d.roles : roleHeap[d.roles[f]].dtype = d.dtype
            /\ \A j \in DOMAIN d.data.coldt : d.data.coldt[j] = d.dtype

\* A populated dense dataset was given int32 and float32 roles by set_data
\* and now holds float64.
C9_Witness ==
    /\ last.op = "set_data"
    /\ last.status = "ok"
    /\ last.given.dtypes = {"int32", "float32"}
    /\ heap[last.res].dtype = "float64"
    /\ heap[last.res].data.coldt = <<"float64", "float64">>

\* C10: when set_data on a populated CupyDataset, given a cp.ndarray, fails
\* on the roles' common dtype, the dataset reads as it did before the call:
\* the same data, features, roles (by content) and dtype.
C10_FailedSetDataChangesNothing ==
    [][(/\ last'.op = "set_data"
        /\ last'.status = "AssertionError"
        /\ heap[last'.src].cls = "CupyDataset"
        /\ last'.arg = "ndarray")
       => View(heap'[last'.src], roleHeap') = View(heap[last'.src], roleHeap)]_vars

\* ------------------------------------------ statements: table construction

\* The call made last was a table constructor of class cls that returned.
Constructed(cls) ==
    /\ last.op = "init"
    /\ last.arg = cls
    /\ last.status = "ok"

Distinct(s) == \A i, j \in DOMAIN s : s[i] = s[j] => i = j

\* C1: a DaskCudfDataset constructed with index_ok=False from a table with
\* pairwise distinct row labels and a target keyed by the same labels, in
\* any physical order, has at every position the table row and the target
\* value of the same input record.
C1_ReindexAlignsTarget ==
    (/\ Constructed("DaskCudfDataset")
     /\ ~last.given.indexOk
     /\ Distinct(last.given.index)
     /\ heap[last.res].arrs = <<"target">>)
    => LET d == heap[last.res]
       IN  /\ Len(d.attr["target"].recs) = NRows(d.data)
           /\ \A i \in 1..NRows(d.data) :
                  d.attr["target"].recs[i] = d.data.recs[i]

\* C2: a DaskCudfDataset constructed with index_ok=False from a table with
\* any row labels has built a mapping that is a bijection from the labels
\* onto 0 .. N-1, and its table's row labels are 0, 1, .., N-1 by position.
C2_ReindexIsDense ==
    (Constructed("DaskCudfDataset") /\ ~last.given.indexOk)
    => LET d == heap[last.res]
           n == NRows(d.data)
           mapping == Mapping(last.given.index)
       IN  /\ Range(mapping) = 0..(n - 1)
           /\ \A k, l \in DOMAIN mapping : mapping[k] = mapping[l] => k = l
           /\ d.data.index = [i \in 1..n |-> i - 1]

\* The input values of column f, by the records of the physical rows of d.
InputColumn(d, f) ==
    [i \in 1..NRows(d.data) |-> RawVal(d.data.recs[i], IndexOf(Cols, f))]

\* f is the last column of the input whose role names attribute k.
LastSpecial(f, k) ==
    \A g \in Range(Cols) :
        <<g, k>> \in last.given.special => IndexOf(Cols, g) <= IndexOf(Cols, f)

RoundTrips ==
    {<<"CupyDataset", "to_cudf", "to_cupy">>,
     <<"CudfDataset", "to_cupy", "to_cudf">>,
     <<"CudfDataset", "to_daskcudf", "to_cudf">>,
     <<"DaskCudfDataset", "to_cudf", "to_daskcudf">>}

\* z holds what x held: the class, the data values and records by position,
\* the features in order, the roles by content, the task, and the values of
\* the same auxiliary attributes by position.
Preserved(x, z) ==
    /\ z.cls = x.cls
    /\ z.data.vals = x.data.vals
    /\ z.data.recs = x.data.recs
    /\ z.features = x.features
    /\ z.roles = x.roles
    /\ z.task = x.task
    /\ z.arrs = x.arrs
    /\ \A k \in DOMAIN x.attr : z.attr[k].vals = x.attr[k].vals

\* C4: when the call made last returned a new dataset z by converting y
\* back to the backend of x, y having been made from x by the conversion
\* there, and every role of x (as x read before the first conversion) is
\* numeric, then z holds what x held before the first conversion.
C4_RoundTripPreserves ==
    (last.status = "ok" /\ last.res # 0 /\ last.res # last.src) =>
        LET z == View(heap[last.res], roleHeap)
        IN  \A t \in RoundTrips :
                (/\ z.origin.op = t[3]
                 /\ z.origin.before.origin.op = t[2]
                 /\ z.origin.before.origin.before.cls = t[1]
                 /\ \A f \in DOMAIN z.origin.before.origin.before.roles :
                        z.origin.before.origin.before.roles[f].name = "Numeric")
                => Preserved(z.origin.before.origin.before, z)

\* The conversion of a class to its own backend.
IdentityOp(cls) ==
    CASE cls = "CupyDataset" -> "to_cupy"
      [] cls = "CupySparseDataset" -> "to_sparse_gpu"
      [] cls = "CudfDataset" -> "to_cudf"
      [] OTHER -> "to_daskcudf"

\* C5: when the call made last was the conversion of an instance to its own
\* backend and it returned, it returned the instance it was called on.
C5_IdentityReturnsSelf ==
    (/\ last.src # 0
     /\ last.status = "ok"
     /\ last.op = IdentityOp(heap[last.src].cls))
    => last.res = last.src

TableClasses == {"CudfDataset", "DaskCudfDataset"}

\* C6: to_cupy and to_sparse_gpu on a table dataset with a feature whose role
\* is not named Numeric raise, whatever dtype the role declares.
C6_NonNumericRoleFails ==
    (/\ last.src # 0
     /\ last.op \in {"to_cupy", "to_sparse_gpu"}
     /\ heap[last.src].cls \in TableClasses
     /\ \E f \in DOMAIN heap[last.src].roles :
            roleHeap[heap[last.src].roles[f]].name # "Numeric")
    => last.status # "ok" /\ last.res = 0

\* C7: to_pandas, to_cudf and to_daskcudf on a CupySparseDataset end in
\* NotImplementedError.
C7_SparseToTableNotImplemented ==
    (/\ last.src # 0
     /\ last.op \in {"to_pandas", "to_cudf", "to_daskcudf"}
     /\ heap[last.src].cls = "CupySparseDataset")
    => last.status = "NotImplementedError"

\* A dataset without the record of how it came to be.
Content(v) == [v EXCEPT !.origin = NoOrigin]

\* C8: cls.from_dataset(d) ends as d's conversion to cls does, called with
\* the same index_ok in the same state: it raises the same error, or returns
\* d itself where the conversion does, or a new dataset with the content of
\* the one the conversion builds.
C8_FromDatasetIsConversion ==
    [][last'.op = "from_dataset" =>
          \E strict \in BOOLEAN :
              \E o \in ConversionTo(last'.arg, heap[last'.src], roleHeap,
                                    last'.given.indexOk, strict) :
                  /\ o.status = last'.status
                  /\ (o.status = "ok" /\ o.same) => last'.res = last'.src
                  /\ (o.status = "ok" /\ ~o.same) =>
                         /\ last'.res # last'.src
                         /\ Content(View(heap'[last'.res], roleHeap'))
                                = Content(View(o.ds, o.rh))]_vars

\* ------------------------------------------------- statements: table set_data

\* C11: set_data given a backing store that is not of the type of the
\* dataset's class raises an assertion or type error, and the dataset reads
\* as it did before the call: the same data, features, roles and dtype.
C11_WrongStoreTypeFailsFirst ==
    [][(/\ last'.op = "set_data"
        /\ last'.arg # StoreKindOf(heap[last'.src].cls))
       => /\ last'.status \in {"AssertionError", "TypeError"}
          /\ View(heap'[last'.src], roleHeap') = View(heap[last'.src], roleHeap)]_vars

\* C12: set_data on a table dataset, given a table of the class's own type,
\* returns, and every column of strings that holds text no number parses
\* from (its cast to a numeric role dtype fails) is still stored as strings.
C12_FailedCastKeepsDtype ==
    (/\ last.op = "set_data"
     /\ last.src \in DOMAIN heap
     /\ heap[last.src].cls \in TableClasses
     /\ last.arg = StoreKindOf(heap[last.src].cls))
    => /\ last.status = "ok"
       /\ LET t == heap[last.src].data
          IN  \A j \in DOMAIN t.coldt :
                  (\E i \in DOMAIN t.vals : t.vals[i][j] = Text)
                      => t.coldt[j] = "object"

\* ------------------------------------------- statements: sequential datasets

\* Every value of d's idx is the offset of a physical row of d's table.
ValidIdx(d) ==
    \A j \in DOMAIN d.idx.groups : \A p \in DOMAIN d.idx.groups[j] :
        d.idx.groups[j][p] \in 0..(NRows(d.data) - 1)

\* The call made last was op on a sequential dataset.
SeqCalled(op) == last.op = op /\ last.src \in DOMAIN heap

\* The group of the source that position j of the last selection names.
SelectedGroup(j) ==
    heap[last.src].idx.groups[LogicalRows(heap[last.src], last.given.sel)[j] + 1]

\* C13: every sequential dataset that was constructed, cut by __getitem__ or
\* put together by concat has, in each of its auxiliary attributes, as many
\* rows as in its table.
C13_AttributesShareRowCount ==
    \A i \in DOMAIN heap :
        heap[i].cls \in SeqClasses =>
            \A k \in Range(heap[i].arrs) :
                Len(heap[i].attr[k].recs) = NRows(heap[i].data)

\* C14: when __getitem__ with a selector that is not a slice object returns,
\* on a dataset whose idx held valid offsets only, every value of the
\* result's idx is the offset of a physical row of the result's table.
C14_SelectionKeepsIdxValid ==
    (/\ SeqCalled("getitem")
     /\ last.status = "ok"
     /\ last.given.sel.kind # "slice"
     /\ ValidIdx(heap[last.src]))
    => ValidIdx(heap[last.res])

\* C15: when __getitem__ with a list of logical rows returns, the record at
\* offset idx[j][p] of the result's table is the record at offset
\* idx[rows[j]][p] of the source's table, for every position j of the list
\* and every position p of the group.
C15_SelectionKeepsRecords ==
    (/\ SeqCalled("getitem")
     /\ last.status = "ok"
     /\ last.given.sel.kind = "list"
     /\ ValidIdx(heap[last.src]))
    => \A j \in DOMAIN last.given.sel.rows : \A p \in DOMAIN SelectedGroup(j) :
           LET r == heap[last.res]
               v == r.idx.groups[j][p]
           IN  /\ v \in 0..(NRows(r.data) - 1)
               /\ r.data.recs[v + 1]
                      = heap[last.src].data.recs[SelectedGroup(j)[p] + 1]

\* C16: when __getitem__ with a list of logical rows returns, on a dataset
\* in which no physical row is named twice by idx, the result has one group
\* per row of the list, each of the size of the group it was selected from,
\* and its table has as many rows as the sizes add up to.
C16_SelectionKeepsGroupSizes ==
    (/\ SeqCalled("getitem")
     /\ last.status = "ok"
     /\ last.given.sel.kind = "list"
     /\ ValidIdx(heap[last.src])
     /\ Distinct(Flatten(heap[last.src].idx.groups)))
    => LET r == heap[last.res]
           rows == last.given.sel.rows
       IN  /\ Len(r.idx.groups) = Len(rows)
           /\ \A j \in DOMAIN rows :
                  Len(r.idx.groups[j]) = Len(SelectedGroup(j))
           /\ NRows(r.data)
                  = Len(Flatten([j \in DOMAIN rows |-> SelectedGroup(j)]))

\* C17: __getitem__ with a slice object, whatever its start, stop and step,
\* returns a dataset with the source's idx and with every physical row of
\* the source, in the source's order.
C17_SliceKeepsEverything ==
    (SeqCalled("getitem") /\ last.given.sel.kind = "slice")
    => /\ last.status = "ok"
       /\ heap[last.res].idx = heap[last.src].idx
       /\ heap[last.res].data.recs = heap[last.src].data.recs

\* C18: __getitem__ warns exactly when its row selector is not a slice
\* object, and returns a dataset whether it warned or not.
C18_WarnsUnlessSlice ==
    SeqCalled("getitem")
    => /\ last.given.warned <=> last.given.sel.kind # "slice"
       /\ last.status = "ok"
       /\ last.res \in DOMAIN heap

\* C19: get_first_frame with an int, a list of logical rows or no selector
\* (slice(None)), on a dataset without missing entries, groups of equal
\* length or not, returns a plain table dataset with one row per selected
\* logical row: row j is the record at offset idx[rows[j]][0] of the source.
C19_FirstFrameOfEveryGroup ==
    (/\ SeqCalled("get_first_frame")
     /\ last.given.sel.kind = "slice"
            => last.given.sel.rows = <<Null, Null, Null>>
     /\ ValidIdx(heap[last.src]))
    => /\ last.status = "ok"
       /\ heap[last.res].cls \in TableClasses
       /\ LET rows == LogicalRows(heap[last.src], last.given.sel)
              r == heap[last.res].data
          IN  /\ NRows(r) = Len(rows)
              /\ \A j \in DOMAIN rows :
                     r.recs[j] = heap[last.src].data.recs[SelectedGroup(j)[1] + 1]

\* C20: when get_first_frame returns, on a dataset whose idx held np.nan
\* (equally long groups), idx holds -1 in place of every np.nan, the result
\* has one row per selected logical row, and the row of every missing group
\* is the padding row.
C20_MissingGroupsGetPaddingRow ==
    (/\ SeqCalled("get_first_frame")
     /\ last.status = "ok"
     /\ heap[last.src].idx.dtype = "float")
    => /\ NaN \notin Range(Flatten(heap[last.src].idx.groups))
       /\ LET rows == LogicalRows(heap[last.src], last.given.sel)
              r == heap[last.res].data
          IN  /\ NRows(r) = Len(rows)
              /\ \A j \in DOMAIN rows :
                     SelectedGroup(j)[1] = -1 => r.recs[j] = 0

\* The datasets the last concat was given.
ConcatInputs == [k \in DOMAIN last.given.sel.rows |-> heap[last.given.sel.rows[k]]]

C23_NoIdxMeansSingletons ==
    \A i \in DOMAIN heap :
        (/\ heap[i].cls \in SeqClasses
         /\ heap[i].origin.op = "init"
         /\ last.op = "init"
         /\ last.given = [idx |-> "tuple"])
        => /\ Len(heap[i].idx.groups) = NRows(heap[i].data)
           /\ \A j \in DOMAIN heap[i].idx.groups : heap[i].idx.groups[j] = <<j - 1>>

\* ------------------------------------------ statements: validation iterators

\* C24: create_validation_iterator returns an iterator for every train
\* dataset, with or without the GPU libraries: get_numpy_iterator's exactly
\* for the classes PandasDataset, NumpyDataset and CSRSparseDataset,
\* otherwise get_gpu_iterator's exactly for the classes CupyDataset,
\* CudfDataset and DaskCudfDataset, otherwise the holdout iterator when valid
\* is given, otherwise the dummy iterator; the subclasses CupySparseDataset,
\* SeqCudfDataset and SeqDaskCudfDataset get the holdout or dummy iterator.
C24_IteratorByExactType ==
    last.op = "create_validation_iterator"
    => /\ last.status = "ok"
       /\ last.res =
              IF last.arg \in {"PandasDataset", "NumpyDataset", "CSRSparseDataset"}
              THEN "get_numpy_iterator"
              ELSE IF last.arg \in {"CupyDataset", "CudfDataset", "DaskCudfDataset"}
              THEN "get_gpu_iterator"
              ELSE IF last.given.valid # "None" THEN "HoldoutIterator"
              ELSE "DummyIterator"

\* -------------------------------------------- statements: linear estimator

\* The round with the greatest score, the earliest of them when several
\* share it.
BestRound(evaluated) ==
    CHOOSE b \in DOMAIN evaluated :
        \A j \in DOMAIN evaluated :
            \/ evaluated[j].score < evaluated[b].score
            \/ evaluated[j].score = evaluated[b].score /\ b <= j

\* C25: when fit returns from a run with validation data, after the last
\* coefficient or after the break, self.model holds the parameters that got
\* the greatest score of all rounds, the earliest of them on ties.
C25_FitKeepsBestModel ==
    (/\ last.op = "fit"
     /\ last.status = "ok"
     /\ last.given.validation
     /\ \A j \in DOMAIN heap[1].evaluated : heap[1].evaluated[j].score # NaN)
    => /\ heap[1].model # 0
       /\ heap[1].models[heap[1].model].params
              = heap[1].evaluated[BestRound(heap[1].evaluated)].params

\* A round of the loop in fit was made and its score evaluated.
RoundMade ==
    /\ last.op = "fit"
    /\ last.status = "running"
    /\ heap'[1].k = heap[1].k + 1

\* C26: every round of fit with validation data optimizes with the next
\* coefficient of cs, in order; the counter es becomes 0 when the score is
\* greater than the best score so far and grows by one otherwise; fit
\* returns after the round exactly when es has reached early_stopping or cs
\* is exhausted; no more optimizations are made than cs has coefficients;
\* and every fit that was started ends.
C26_EarlyStoppingLoop ==
    /\ [][RoundMade =>
            LET est == heap[1]
                new == heap'[1]
                score == new.evaluated[new.k].score
            IN  /\ new.tried = SeqOf(est.cs, new.k)
                /\ new.es = IF Greater(score, est.best_score) THEN 0
                            ELSE est.es + 1
                /\ last'.status = "ok"
                       <=> (new.es >= est.early_stopping \/ new.k = Len(est.cs))
                /\ last'.status \in {"ok", "running"}
                /\ Len(new.tried) <= Len(est.cs)]_vars
    /\ (last.op = "fit") ~> (last.status # "running")

C26_Witness ==
    /\ last.op = "fit"
    /\ last.status = "ok"
    /\ last.given.validation
    /\ heap[1].es = heap[1].early_stopping
    /\ heap[1].k < Len(heap[1].cs)
    /\ \E j \in DOMAIN heap[1].evaluated : j > 1 /\ 
           Greater(heap[1].evaluated[j].score, heap[1].evaluated[j - 1].score)

\* ------------------------------------------ statements: the cast per column

\* Whether column j of dataset d holds text that its role's dtype, a
\* number's, cannot be cast from.
CastOfColumnFails(d, j) ==
    /\ IsNumber(roleHeap[d.roles[d.data.cols[j]]].dtype)
    /\ \E i \in DOMAIN d.data.vals : d.data.vals[i][j] = Text

\* C27: when set_data on a table dataset, given a table of the class's own
\* type, returns and the cast of one column failed, every other column
\* whose cast does not fail is stored with the dtype of its role.
C27_CastFailsPerColumn ==
    (/\ last.op = "set_data"
     /\ last.status = "ok"
     /\ last.src \in DOMAIN heap
     /\ heap[last.src].cls \in TableClasses
     /\ last.arg = StoreKindOf(heap[last.src].cls))
    => LET d == heap[last.src]
       IN  (\E j \in DOMAIN d.data.cols : CastOfColumnFails(d, j))
           => \A k \in DOMAIN d.data.cols :
                  ~CastOfColumnFails(d, k)
                      => d.data.coldt[k] = roleHeap[d.roles[d.data.cols[k]]].dtype

\* ------------------------------------------------ statements: parsing dates

\* C28: a call of get_first_frame on a table dataset passes no column to the
\* datetime parser that holds datetime values already, parsed when the
\* dataset was given its table.
C28_DatesParsedOnce ==
    [][last'.op = "get_first_frame"
       => LET d == heap[last'.src]
              dateCols == {f \in DOMAIN d.roles :
                              roleHeap[d.roles[f]].name = "Datetime"}
          IN  \A f \in ParsedColumns(d.data, dateCols) :
                  d.data.coldt[IndexOf(d.data.cols, f)] # "datetime64"]_vars

\* ------------------------------------------- statements: what calls leave

\* C29: get_first_frame leaves the dataset it is called on as it was: the
\* same idx and the same table, with or without np.nan in idx, whether the
\* call returns or raises.
C29_FirstFrameReadsOnly ==
    [][last'.op = "get_first_frame"
       => /\ heap'[last'.src].idx = heap[last'.src].idx
          /\ heap'[last'.src].data = heap[last'.src].data]_vars

\* C30: to_cupy on a CudfDataset leaves the dataset it is called on as it
\* was: every role reads as before the call, with the same dtype, also when
\* the dense dataset gives its roles another, common dtype.
C30_ToCupyLeavesSource ==
    [][(last'.op = "to_cupy" /\ heap[last'.src].cls = "CudfDataset")
       => View(heap'[last'.src], roleHeap').roles
              = View(heap[last'.src], roleHeap).roles]_vars

====
